---- MODULE Spec2Model ----
(***************************************************************************)
(* Model of examples/graphene_apps/cppopenvino/ov_workload/setup.py: the   *)
(* packaging script of the openvino_python_wrapper package.                *)
(*                                                                         *)
(* A run is one execution of the script by one interpreter process.  The   *)
(* state of a run is the interpreter's sys.version_info, the position in   *)
(* the module body, the modules imported so far, what was written to the   *)
(* standard streams, the pending exception, the process exit status and    *)
(* the calls received by setuptools.  Runs are independent processes; the  *)
(* variables are functions from the set of launched runs.                  *)
(***************************************************************************)
EXTENDS Integers, Sequences, FiniteSets, TLC

VARIABLES
    version_info,   \* run -> <<major, minor, micro, releaselevel>>
    pc,             \* run -> position in the module body
    modules,        \* run -> set of modules imported so far
    stdout,         \* run -> sequence of lines printed to standard output
    stderr,         \* run -> sequence of tracebacks written by the interpreter
    exception,      \* run -> <<>> or <<e>>: the exception propagating, if any
    exit_status,    \* run -> <<>> while running, <<code>> once the process ended
    found,          \* run -> <<>> or <<S>>: the value find_packages() returned
    setup_calls,    \* run -> sequence of keyword-argument records given to setup()
    hooks,          \* run -> set of entry points setuptools registered
    events          \* run -> sequence of the steps executed, in order

vars == <<version_info, pc, modules, stdout, stderr, exception, exit_status,
          found, setup_calls, hooks, events>>

----------------------------------------------------------------------------
(* Bounds of the model *)

MaxMajor == 4
MaxMinor == 1
MaxMicro == 1
MaxExitCode == 2

\* sys.version_info exists since Python 2.0, so the majors start at 2.
Majors == 2..MaxMajor
Minors == 0..MaxMinor
Micros == 0..MaxMicro
ReleaseLevels == {"beta", "final"}
VersionInfos == Majors \X Minors \X Micros \X ReleaseLevels

\* The package directory find_packages() may discover beside setup.py; it
\* returns the packages it finds, possibly none.
DiscoverablePackages == {"ov_workload"}

\* The ways a call of setuptools.setup() can end: it returns, it raises
\* SystemExit with a code (a failed command), or it raises another exception.
SetupOutcomes ==
    {[kind |-> "return", code |-> 0], [kind |-> "exception", code |-> 1]}
    \cup {[kind |-> "SystemExit", code |-> c] : c \in 1..MaxExitCode}

----------------------------------------------------------------------------
(* The literals of the script *)

PY3 == 3

EXIT_FAILURE == 1

\* Mutant: the diagnostic reworded.
ErrorMessageReworded == "ERROR: Python 3 is required"

ERROR_MESSAGE == "ERROR: must run with python3"

\* Mutant: the distribution name spelled with hyphens.
NameHyphenated == "openvino-python-wrapper"

NAME == "openvino_python_wrapper"
\* version=0.6 is a float literal; it is kept as the literal with its type.
VERSION == [type |-> "float", literal |-> "0.6"]
DESCRIPTION == "Openvino python wrapper for Graphene"
AUTHOR == "Hyperledger Avalon"
URL == "https://github.com/hyperledger/avalon"

\* Mutant: the data file declared for one named package only.
PackageDataOfOnePackage == ("ov_workload" :> <<"ov_workload_config.toml">>)

PACKAGE_DATA == ("" :> <<"ov_workload_config.toml">>)
INCLUDE_PACKAGE_DATA == TRUE

\* Mutant: a console script left in the mapping.
EntryPointsConsoleScript == ("console_scripts" :> <<"ov_workload=ov_workload:main">>)

\* entry_points={}: the empty mapping
ENTRY_POINTS == <<>>

----------------------------------------------------------------------------
(* Pure parts of the script *)

\* Mutant: the comparison written <=, which turns Python 3 away.
VersionTooOldInclusive(vi) == vi[1] <= PY3

\* Mutant: a second error condition, pre-release interpreters.
VersionTooOldOrPrerelease(vi) == vi[1] < PY3 \/ vi[4] # "final"

\* Mutant: the guard also looks at the minor version (3.1 or later).
VersionTooOldMinor(vi) == vi[1] < PY3 \/ (vi[1] = PY3 /\ vi[2] < 1)

\* Line 20: sys.version_info[0] < 3.  Python indexes from 0, TLA+ from 1.
VersionTooOld(vi) == vi[1] < PY3

\* Lines 26-35: the keyword arguments of the setup() call; pkgs is the value
\* find_packages() returned.
SetupKwargs(pkgs) ==
    [name                 |-> NAME,
     version              |-> VERSION,
     description          |-> DESCRIPTION,
     author               |-> AUTHOR,
     url                  |-> URL,
     packages             |-> pkgs,
     package_data         |-> PACKAGE_DATA,
     include_package_data |-> INCLUDE_PACKAGE_DATA,
     entry_points         |-> ENTRY_POINTS]

\* The exception a setup() outcome leaves propagating into the module body.
RaisedBy(o) ==
    [type   |-> IF o.kind = "SystemExit" THEN "SystemExit" ELSE "Exception",
     code   |-> o.code,
     origin |-> "setuptools"]

\* Mutant: every failure translated to status 1, as a wrapping
\* "except: sys.exit(1)" would.
StatusTranslated(e) == 1

\* The script catches nothing, so an exception reaches the interpreter's top
\* level: SystemExit(code) ends the process with that code, any other
\* exception with a traceback and status 1.
StatusOfUncaught(e) == IF e.type = "SystemExit" THEN e.code ELSE 1

TracebackOf(e) == IF e.type = "SystemExit" THEN <<>> ELSE <<e.type>>

----------------------------------------------------------------------------
(* The initial state: every launched run is about to execute line 17 *)

InitRuns(R) ==
    /\ version_info \in [R -> VersionInfos]
    /\ pc = [r \in R |-> "import_sys"]
    /\ modules = [r \in R |-> {}]
    /\ stdout = [r \in R |-> <<>>]
    /\ stderr = [r \in R |-> <<>>]
    /\ exception = [r \in R |-> <<>>]
    /\ exit_status = [r \in R |-> <<>>]
    /\ found = [r \in R |-> <<>>]
    /\ setup_calls = [r \in R |-> <<>>]
    /\ hooks = [r \in R |-> {}]
    /\ events = [r \in R |-> <<>>]

Init == InitRuns({"run"})

InitPair == InitRuns({"run1", "run2"})

Runs == DOMAIN pc

Goto(r, label) == pc' = [pc EXCEPT ![r] = label]

Log(r, e) == events' = [events EXCEPT ![r] = Append(@, e)]

----------------------------------------------------------------------------
(* The steps of the module body *)

\* Mutant: the import of line 24 moved to the top of the file, above the guard.
ImportsAtTop(r) ==
    /\ pc[r] = "import_sys"
    /\ modules' = [modules EXCEPT ![r] = @ \cup {"sys", "setuptools"}]
    /\ events' = [events EXCEPT ![r] = @ \o <<"import sys", "import setuptools">>]
    /\ Goto(r, "guard")
    /\ UNCHANGED <<version_info, stdout, stderr, exception, exit_status,
                   found, setup_calls, hooks>>

\* Line 17: import sys
ImportSys(r) ==
    /\ pc[r] = "import_sys"
    /\ modules' = [modules EXCEPT ![r] = @ \cup {"sys"}]
    /\ Log(r, "import sys")
    /\ Goto(r, "guard")
    /\ UNCHANGED <<version_info, stdout, stderr, exception, exit_status,
                   found, setup_calls, hooks>>

\* Line 20: if sys.version_info[0] < 3:
VersionGuard(r) ==
    /\ pc[r] = "guard"
    /\ Log(r, "check")
    /\ IF VersionTooOld(version_info[r])
          THEN Goto(r, "print")
          ELSE Goto(r, "import_setuptools")
    /\ UNCHANGED <<version_info, modules, stdout, stderr, exception,
                   exit_status, found, setup_calls, hooks>>

\* Line 21: print('ERROR: must run with python3')
PrintError(r) ==
    /\ pc[r] = "print"
    /\ stdout' = [stdout EXCEPT ![r] = Append(@, ERROR_MESSAGE)]
    /\ Log(r, "print")
    /\ Goto(r, "exit")
    /\ UNCHANGED <<version_info, modules, stderr, exception, exit_status,
                   found, setup_calls, hooks>>

\* Line 22: sys.exit(1) raises SystemExit(1)
SysExit(r) ==
    /\ pc[r] = "exit"
    /\ exception' = [exception EXCEPT ![r] =
          <<[type |-> "SystemExit", code |-> EXIT_FAILURE, origin |-> "script"]>>]
    /\ Log(r, "exit")
    /\ Goto(r, "raised")
    /\ UNCHANGED <<version_info, modules, stdout, stderr, exit_status,
                   found, setup_calls, hooks>>

\* Line 24: from setuptools import setup, find_packages.  setuptools is a
\* third-party distribution: where it is not installed the statement raises
\* ImportError.
ImportSetuptools(r) ==
    /\ pc[r] = "import_setuptools"
    /\ Log(r, "import setuptools")
    /\ \E installed \in BOOLEAN :
          IF installed
             THEN /\ modules' = [modules EXCEPT ![r] = @ \cup {"setuptools"}]
                  /\ Goto(r, "find_packages")
                  /\ UNCHANGED exception
             ELSE /\ exception' = [exception EXCEPT ![r] =
                        <<[type |-> "ImportError", code |-> 1, origin |-> "import"]>>]
                  /\ Goto(r, "raised")
                  /\ UNCHANGED modules
    /\ UNCHANGED <<version_info, stdout, stderr, exit_status, found,
                   setup_calls, hooks>>

\* Line 31: packages=find_packages() is evaluated before the call of line 26.
FindPackages(r) ==
    /\ pc[r] = "find_packages"
    /\ \E pkgs \in SUBSET DiscoverablePackages :
          found' = [found EXCEPT ![r] = <<pkgs>>]
    /\ Log(r, "find_packages")
    /\ Goto(r, "setup")
    /\ UNCHANGED <<version_info, modules, stdout, stderr, exception,
                   exit_status, setup_calls, hooks>>

\* Lines 26-35: setup(...).  setuptools receives the keyword arguments; when
\* it returns it has registered the entry points it was given.
Setup(r) ==
    /\ pc[r] = "setup"
    /\ LET kwargs == SetupKwargs(found[r][1]) IN
       /\ setup_calls' = [setup_calls EXCEPT ![r] = Append(@, kwargs)]
       /\ \E o \in SetupOutcomes :
             IF o.kind = "return"
                THEN /\ hooks' = [hooks EXCEPT ![r] = DOMAIN kwargs.entry_points]
                     /\ Goto(r, "end")
                     /\ UNCHANGED exception
                ELSE /\ exception' = [exception EXCEPT ![r] = <<RaisedBy(o)>>]
                     /\ Goto(r, "raised")
                     /\ UNCHANGED hooks
    /\ Log(r, "setup")
    /\ UNCHANGED <<version_info, modules, stdout, stderr, exit_status, found>>

\* Mutant: a blocking wait after setup() returned.
ModuleEndWaits(r) ==
    /\ pc[r] = "end"
    /\ UNCHANGED vars

\* Line 35 is the last statement: the module body ends and the interpreter
\* exits with status 0.
ModuleEnd(r) ==
    /\ pc[r] = "end"
    /\ exit_status' = [exit_status EXCEPT ![r] = <<0>>]
    /\ Goto(r, "done")
    /\ UNCHANGED <<version_info, modules, stdout, stderr, exception, found,
                   setup_calls, hooks, events>>

\* No statement of the script is inside a try block: an exception raised at
\* line 22, 24 or 26 ends the process.
Uncaught(r) ==
    /\ pc[r] = "raised"
    /\ LET e == exception[r][1] IN
       /\ exit_status' = [exit_status EXCEPT ![r] = <<StatusOfUncaught(e)>>]
       /\ stderr' = [stderr EXCEPT ![r] = @ \o TracebackOf(e)]
    /\ Goto(r, "done")
    /\ UNCHANGED <<version_info, modules, stdout, exception, found,
                   setup_calls, hooks, events>>

Next ==
    \/ \E r \in Runs : ImportSys(r)
    \/ \E r \in Runs : VersionGuard(r)
    \/ \E r \in Runs : PrintError(r)
    \/ \E r \in Runs : SysExit(r)
    \/ \E r \in Runs : ImportSetuptools(r)
    \/ \E r \in Runs : FindPackages(r)
    \/ \E r \in Runs : Setup(r)
    \/ \E r \in Runs : ModuleEnd(r)
    \/ \E r \in Runs : Uncaught(r)

\* One run of the script.
Spec == Init /\ [][Next]_vars

\* One run; the interpreter keeps executing the next statement.
FairSpec == Init /\ [][Next]_vars /\ WF_vars(Next)

\* Two runs of the script, by two interpreter processes.
SpecPair == InitPair /\ [][Next]_vars

----------------------------------------------------------------------------
(* Vocabulary of the properties *)

Major(r) == version_info[r][1]

Finished(r) == pc[r] = "done"

Diagnostic == "ERROR: must run with python3"

DiagnosticPrinted(r) == \E i \in 1..Len(stdout[r]) : stdout[r][i] = Diagnostic

Calls(r) == {setup_calls[r][i] : i \in 1..Len(setup_calls[r])}

Happened(r, e) == \E i \in 1..Len(events[r]) : events[r][i] = e

----------------------------------------------------------------------------
(* C1 *)

\* C1: on a run whose interpreter has major version below 3, setuptools is
\* never imported and setup() is never invoked, the diagnostic is the only
\* thing ever printed, and the finished run has printed exactly the line
\* 'ERROR: must run with python3' once and has exit status 1.
C1_OldInterpreterRejected ==
    \A r \in Runs :
        Major(r) < 3 =>
            /\ setup_calls[r] = <<>>
            /\ "setuptools" \notin modules[r]
            /\ found[r] = <<>>
            /\ stdout[r] \in {<<>>, <<Diagnostic>>}
            /\ Finished(r) => /\ stdout[r] = <<Diagnostic>>
                              /\ exit_status[r] = <<1>>

C1_Witness ==
    \E r \in Runs :
        /\ Major(r) = 2
        /\ Finished(r)
        /\ stdout[r] = <<Diagnostic>>
        /\ exit_status[r] = <<1>>

----------------------------------------------------------------------------
(* C2 *)

\* C2 as stated: every finished run whose interpreter has major version 3 or
\* higher has not printed the diagnostic and has invoked setup() exactly once.
C2_Original ==
    \A r \in Runs :
        (Major(r) >= 3 /\ Finished(r)) =>
            /\ ~DiagnosticPrinted(r)
            /\ Len(setup_calls[r]) = 1

\* C2 amended: on a run whose interpreter has major version 3 or higher the
\* diagnostic is never printed and setup() is never invoked more than once;
\* the finished run has invoked setup() exactly once when the import of
\* setuptools succeeded, and not at all when that import raised ImportError.
C2_NewInterpreterPackages ==
    \A r \in Runs :
        Major(r) >= 3 =>
            /\ ~DiagnosticPrinted(r)
            /\ Len(setup_calls[r]) <= 1
            /\ Finished(r) =>
                  IF "setuptools" \in modules[r]
                     THEN Len(setup_calls[r]) = 1
                     ELSE /\ Len(setup_calls[r]) = 0
                          /\ exception[r][1].type = "ImportError"

C2_Witness ==
    \E r \in Runs :
        /\ Major(r) >= 3
        /\ Finished(r)
        /\ Len(setup_calls[r]) = 1
        /\ stdout[r] = <<>>

----------------------------------------------------------------------------
(* C3 *)

\* C3: every call setup() receives carries the name
\* 'openvino_python_wrapper', the version 0.6 (the float literal) and the
\* data file 'ov_workload_config.toml', whatever the interpreter version, the
\* packages discovered and the outcome of the call.
C3_DeclaredValuesPassed ==
    \A r \in Runs : \A call \in Calls(r) :
        /\ call.name = "openvino_python_wrapper"
        /\ call.version = [type |-> "float", literal |-> "0.6"]
        /\ \E k \in DOMAIN call.package_data :
              call.package_data[k] = <<"ov_workload_config.toml">>

C3_Witness ==
    \E r \in Runs :
        /\ Len(setup_calls[r]) = 1
        /\ setup_calls[r][1].name = "openvino_python_wrapper"
        /\ setup_calls[r][1].packages = DiscoverablePackages

----------------------------------------------------------------------------
(* C4 *)

\* C4: the entry-point mapping of every setup() call is empty and no entry
\* point is registered in any state of any run.
C4_NoEntryPoints ==
    \A r \in Runs :
        /\ hooks[r] = {}
        /\ \A call \in Calls(r) : DOMAIN call.entry_points = {}

C4_Witness ==
    \E r \in Runs :
        /\ Finished(r)
        /\ Len(setup_calls[r]) = 1
        /\ exception[r] = <<>>
        /\ hooks[r] = {}

----------------------------------------------------------------------------
(* C5 *)

\* The metadata of the claim, as one call of setup() carries it.
MetadataRegistered(r) ==
    /\ Len(setup_calls[r]) = 1
    /\ LET call == setup_calls[r][1] IN
       /\ call.name = "openvino_python_wrapper"
       /\ call.version = [type |-> "float", literal |-> "0.6"]
       /\ call.description = "Openvino python wrapper for Graphene"
       /\ call.author = "Hyperledger Avalon"
       /\ call.url = "https://github.com/hyperledger/avalon"
       /\ call.packages = found[r][1]
       /\ Cardinality(DOMAIN call.package_data) = 1
       /\ \A k \in DOMAIN call.package_data : Len(call.package_data[k]) = 1

\* The exit status the outcome of setup() determines: 0 when it returned, the
\* code of the SystemExit it raised, 1 for any other exception it raised.
StatusFromPackaging(r) ==
    IF exception[r] = <<>> THEN exit_status[r] = <<0>>
    ELSE LET e == exception[r][1] IN
         /\ e.origin = "setuptools"
         /\ exit_status[r] = <<IF e.type = "SystemExit" THEN e.code ELSE 1>>
         /\ (e.type = "SystemExit") = (stderr[r] = <<>>)

\* C5 as stated: every finished run whose interpreter has major version 3 or
\* higher has registered the metadata with setup() and ends with the exit
\* status the outcome of setup() determines.
C5_Original ==
    \A r \in Runs :
        (Major(r) >= 3 /\ Finished(r)) =>
            /\ MetadataRegistered(r)
            /\ StatusFromPackaging(r)

\* C5 amended: every finished run whose interpreter has major version 3 or
\* higher and whose import of setuptools succeeded has passed the metadata
\* (name, version, description, author, URL, the packages find_packages()
\* returned, one data file) to setup() in one call, and ends with the exit
\* status the outcome of setup() determines, untranslated; a finished run
\* whose import of setuptools raised has registered nothing and ends with
\* the status 1 of the uncaught ImportError.
C5_PackagingDecidesExit ==
    \A r \in Runs :
        (Major(r) >= 3 /\ Finished(r)) =>
            IF "setuptools" \in modules[r]
               THEN /\ MetadataRegistered(r)
                    /\ StatusFromPackaging(r)
               ELSE /\ setup_calls[r] = <<>>
                    /\ exception[r][1].type = "ImportError"
                    /\ exit_status[r] = <<1>>

C5_Witness ==
    \E r \in Runs :
        /\ Major(r) >= 3
        /\ Finished(r)
        /\ MetadataRegistered(r)
        /\ exception[r] # <<>>
        /\ exception[r][1].type = "SystemExit"
        /\ exit_status[r] = <<2>>

----------------------------------------------------------------------------
(* C6 *)

\* The outcome the script itself produces: the diagnostic on standard output
\* and the exit of line 22 with status 1.
ScriptFailure(r) ==
    /\ stdout[r] = <<Diagnostic>>
    /\ exception[r] = <<[type |-> "SystemExit", code |-> 1, origin |-> "script"]>>
    /\ exit_status[r] = <<1>>

\* C6: a finished run has printed the diagnostic and exited through the
\* script's own exit(1) if and only if its interpreter's major version is
\* below 3; in every state, a printed diagnostic or an exit raised by the
\* script implies a major version below 3.
C6_SingleErrorCondition ==
    \A r \in Runs :
        /\ Finished(r) => (ScriptFailure(r) <=> Major(r) < 3)
        /\ DiagnosticPrinted(r) => Major(r) < 3
        /\ (exception[r] # <<>> /\ exception[r][1].origin = "script") => Major(r) < 3

C6_Witness ==
    \E r1 \in Runs :
        /\ Finished(r1)
        /\ Major(r1) < 3
        /\ ScriptFailure(r1)

----------------------------------------------------------------------------
(* C7 *)

EndedByGuard(r) ==
    /\ Major(r) < 3
    /\ events[r] = <<"import sys", "check", "print", "exit">>

EndedAfterSetupReturned(r) ==
    /\ Major(r) >= 3
    /\ events[r] = <<"import sys", "check", "import setuptools", "find_packages", "setup">>
    /\ exception[r] = <<>>

EndedBySetupRaising(r) ==
    /\ Major(r) >= 3
    /\ events[r] = <<"import sys", "check", "import setuptools", "find_packages", "setup">>
    /\ exception[r] # <<>>
    /\ exception[r][1].origin = "setuptools"

EndedByImportError(r) ==
    /\ Major(r) >= 3
    /\ events[r] = <<"import sys", "check", "import setuptools">>
    /\ exception[r] # <<>>
    /\ exception[r][1].type = "ImportError"

\* C7 as stated, its part about how a run ends: a finished run either exited
\* right after the failed version check, or ended after the version check
\* passed and setup() returned.
C7_Original ==
    \A r \in Runs :
        Finished(r) => (EndedByGuard(r) \/ EndedAfterSetupReturned(r))

\* C7 amended: every run terminates, and a finished run has executed each of
\* its statements once, in file order, and ended in one of four ways: right
\* after the failed version check; after the version check passed and
\* setup() returned; after setup() raised; or after the import of setuptools
\* raised ImportError.
C7_Terminates ==
    /\ <>(\A r \in Runs : Finished(r))
    /\ [](\A r \in Runs :
             Finished(r) => \/ EndedByGuard(r)
                            \/ EndedAfterSetupReturned(r)
                            \/ EndedBySetupRaising(r)
                            \/ EndedByImportError(r))

C7_Witness ==
    \E r \in Runs :
        /\ Finished(r)
        /\ EndedAfterSetupReturned(r)
        /\ exit_status[r] = <<0>>

----------------------------------------------------------------------------
(* C8 *)

Before(r, a, b) ==
    \A j \in 1..Len(events[r]) :
        events[r][j] = b => \E i \in 1..(j - 1) : events[r][i] = a

\* C8: in every state of every run the version check precedes the import of
\* setuptools, the call of find_packages(), the call of setup(), the print
\* and the exit; setuptools is imported only after the check; on the failing
\* branch the print precedes the exit, the process has no exit status before
\* the diagnostic is on standard output, and the finished run has executed
\* the check, the print and the exit and nothing after them.
C8_CheckFirst ==
    \A r \in Runs :
        /\ \A e \in {"import setuptools", "find_packages", "setup", "print", "exit"} :
              Before(r, "check", e)
        /\ "setuptools" \in modules[r] => Happened(r, "check")
        /\ Before(r, "print", "exit")
        /\ (Major(r) < 3 /\ exit_status[r] # <<>>) => stdout[r] = <<Diagnostic>>
        /\ (Major(r) < 3 /\ Finished(r)) =>
              events[r] = <<"import sys", "check", "print", "exit">>

C8_Witness ==
    \E r \in Runs :
        /\ Finished(r)
        /\ events[r] = <<"import sys", "check", "print", "exit">>
        /\ stdout[r] = <<Diagnostic>>

----------------------------------------------------------------------------
(* C9 *)

\* The branch of the guard a run took, once it evaluated the guard.
Decided(r) == Happened(r, "check")

TookFailingBranch(r) == pc[r] = "print" \/ Happened(r, "print")

\* C9: any two runs whose interpreters report the same major version and that
\* have both evaluated the guard took the same branch of it, whatever their
\* minor, micro and release level: either both took the failing branch, and
\* once finished both ended with status 1, or both went on towards setup()
\* and neither prints or reaches the exit of line 22.
C9_OnlyMajorDecides ==
    \A r1 \in Runs : \A r2 \in Runs :
        (Major(r1) = Major(r2) /\ Decided(r1) /\ Decided(r2)) =>
            /\ TookFailingBranch(r1) <=> TookFailingBranch(r2)
            /\ (TookFailingBranch(r1) /\ Finished(r1) /\ Finished(r2)) =>
                  (exit_status[r1] = <<1>> /\ exit_status[r2] = <<1>>)
            /\ ~TookFailingBranch(r1) =>
                  (stdout[r1] = <<>> /\ stdout[r2] = <<>>
                   /\ pc[r2] \notin {"print", "exit"})

C9_Witness ==
    \E r1 \in Runs : \E r2 \in Runs :
        /\ Major(r1) = Major(r2)
        /\ version_info[r1][2] # version_info[r2][2]
        /\ version_info[r1][3] # version_info[r2][3]
        /\ version_info[r1][4] # version_info[r2][4]
        /\ Finished(r1) /\ Finished(r2)
        /\ Len(setup_calls[r1]) = 1 /\ Len(setup_calls[r2]) = 1

----------------------------------------------------------------------------
(* C10 *)

\* C10: every call setup() receives declares package data under exactly one
\* key, the empty package name, whose value is the one-element list
\* ['ov_workload_config.toml'], and has include_package_data true.
C10_PackageData ==
    \A r \in Runs : \A call \in Calls(r) :
        /\ DOMAIN call.package_data = {""}
        /\ call.package_data[""] = <<"ov_workload_config.toml">>
        /\ call.include_package_data = TRUE

C10_Witness ==
    \E r \in Runs :
        /\ Len(setup_calls[r]) = 1
        /\ DOMAIN setup_calls[r][1].package_data = {""}
        /\ setup_calls[r][1].packages = {}

====
